---- MODULE Spec2Model ----
(***************************************************************************)
(* Model of src/app.py: generar_reporte_inscritos(df) and the part of      *)
(* main() that calls it (the "Generar Reporte PDF" button handler).        *)
(*                                                                         *)
(* A row of the DataFrame is a record                                      *)
(*   [nombre, curso, hora, correo]                                         *)
(* for the columns 'Nombre y apellidos completos', 'Curso de interés',     *)
(* 'Hora de inicio' and 'Correo de contacto'.  A missing cell is NaN.      *)
(***************************************************************************)
EXTENDS Integers, Sequences, FiniteSets, TLC

\* ---------------------------------------------------------------- bounds
\* Longest dataset of complete rows (GoodRows, CorreoRows), and longest
\* dataset of rows that may hold missing, empty or unparseable required cells
\* (DefectRows).
MaxRows == 3
MaxDefRows == 2

\* ---------------------------------------------------------------- values
\* pandas' missing value in an object column (None / NaN)
NaN == "NaN"
\* pandas' missing timestamp; parsed timestamps are the days 1, 2, ...
NaT == 0

\* The course names of the model in Python's str order, which is the order
\* groupby(sort=True) gives the group keys.
CursoOrden == <<"", "Go", "Python", "Rust">>

\* Complete rows: two people, three courses, two emails.
GoodRows ==
  [nombre : {"Ana", "Bob"}, curso : {"Go", "Python", "Rust"}, hora : {"t1"},
   correo : {"a@x", "b@x"}]

\* Rows of one course whose email, which dropna does not look at, may be
\* missing.
CorreoRows ==
  [nombre : {"Ana", "Bob"}, curso : {"Go"}, hora : {"t1"},
   correo : {NaN, "a@x", "b@x"}]

\* Rows whose required cells may be missing (NaN), empty ("") or, for the
\* timestamp, no date ("x").

DefectRows ==
  [nombre : {NaN, "", "Ana"}, curso : {NaN, "", "Go"},
   hora : {NaN, "", "x", "t1", "t2"}, correo : {"a@x"}]

SeqsUpTo(S, n) == UNION {[1..m -> S] : m \in 0..n}

\* The datasets main() may hand to generar_reporte_inscritos.
Inputs ==
  SeqsUpTo(GoodRows, MaxRows) \cup SeqsUpTo(CorreoRows, MaxRows)
    \cup SeqsUpTo(DefectRows, MaxDefRows)

\* ------------------------------------------------------------- line 21
\* DataFrame.dropna(subset=[nombre, curso, hora]): a row is dropped when one
\* of the three cells is missing (NaN/None/NaT).  An empty string is a value.
IsNa(v) == v = NaN

\* Variant: a dropna that also takes the empty string for a missing value.
DropnaDropsEmpty(d) ==
  SelectSeq(d, LAMBDA r : /\ r.nombre \notin {NaN, ""}
                          /\ r.curso \notin {NaN, ""}
                          /\ r.hora \notin {NaN, ""})

Dropna(d) ==
  SelectSeq(d, LAMBDA r : ~IsNa(r.nombre) /\ ~IsNa(r.curso) /\ ~IsNa(r.hora))

\* ------------------------------------------------------------- line 24
\* pd.to_datetime(column), errors='raise': an empty string becomes NaT, a
\* string that is no date raises.
\* Variant: errors='coerce', where no value raises.
ParseableCoerce(s) == TRUE

Parseable(s) == s \in {"", "t1", "t2"}

ParseTs(s) ==
  CASE s = "t1" -> 1
    [] s = "t2" -> 2
    [] OTHER -> NaT

ToDatetime(d) == [k \in 1..Len(d) |-> [d[k] EXCEPT !.hora = ParseTs(@)]]

\* ---------------------------------------------------------- lines 27-29
\* Series.nunique(): the number of distinct non-missing values.
Nunique(S) == Cardinality({v \in S : ~IsNa(v)})

\* Variant: len(df), the number of rows.
PersonasUnicasRowCount(d) == Len(d)

PersonasUnicas(d) == Nunique({d[k].nombre : k \in 1..Len(d)})

\* Series.min() / Series.max() skip NaT; of no value at all they are NaT.
Horas(d) == {d[k].hora : k \in 1..Len(d)} \ {NaT}

FechaMinima(d) ==
  IF Horas(d) = {} THEN NaT
  ELSE CHOOSE m \in Horas(d) : \A x \in Horas(d) : m <= x

FechaMaxima(d) ==
  IF Horas(d) = {} THEN NaT
  ELSE CHOOSE m \in Horas(d) : \A x \in Horas(d) : m >= x

\* ------------------------------------------------------------- line 33
\* groupby('Curso de interés'): the group keys, sorted, NaN keys left out.
GroupKeys(d) ==
  SelectSeq(CursoOrden, LAMBDA c : \E k \in 1..Len(d) : d[k].curso = c)

\* Variant: size() of the group, its number of rows.
ConteoRowCount(d, c) == Cardinality({k \in 1..Len(d) : d[k].curso = c})

\* ['Nombre y apellidos completos'].nunique() of one group
Conteo(d, c) == Nunique({d[k].nombre : k \in {j \in 1..Len(d) : d[j].curso = c}})

GroupbyNunique(d) ==
  LET keys == GroupKeys(d)
  IN  [k \in 1..Len(keys) |-> [curso |-> keys[k], n |-> Conteo(d, keys[k])]]

IsDescending(s) == \A a, b \in 1..Len(s) : a < b => s[a].n >= s[b].n

IsAscending(s) == \A a, b \in 1..Len(s) : a < b => s[a].n <= s[b].n

Arrangements(s) ==
  {[k \in 1..Len(s) |-> s[p[k]]] :
     p \in {q \in [1..Len(s) -> 1..Len(s)] :
              \A a, b \in 1..Len(s) : a # b => q[a] # q[b]}}

\* Variant: sort_values() with its default ascending=True.
SortValuesAscending(s) == {r \in Arrangements(s) : IsAscending(r)}

\* Series.sort_values(ascending=False) with the default kind='quicksort',
\* which is not a stable sort: every descending arrangement of the groups
\* is a possible result.
SortValues(s) == {r \in Arrangements(s) : IsDescending(r)}

\* ------------------------------------------------------------ line 103
\* df[df[curso] == c][[nombre, correo]]: the (name, email) pairs of the rows
\* of course c, in row order.
ParesCurso(d, c) ==
  LET filas == SelectSeq(d, LAMBDA r : r.curso = c)
  IN  [k \in 1..Len(filas) |-> <<filas[k].nombre, filas[k].correo>>]

\* Variant: drop_duplicates(subset=[nombre]).
DropDuplicatesByName(s) ==
  SelectSeq([k \in 1..Len(s) |->
               IF \E j \in 1..(k-1) : s[j][1] = s[k][1] THEN <<>> ELSE s[k]],
            LAMBDA x : x # <<>>)

\* DataFrame.drop_duplicates(): keep='first', the whole row is the key.
DropDuplicates(s) ==
  SelectSeq([k \in 1..Len(s) |->
               IF \E j \in 1..(k-1) : s[j] = s[k] THEN <<>> ELSE s[k]],
            LAMBDA x : x # <<>>)

DatosCurso(d, c) == DropDuplicates(ParesCurso(d, c))

\* ------------------------------------------------------------- line 98
\* for curso in inscripciones_por_curso.index: the course of iteration i,
\* and the end of the loop.
\* Variant: a loop over sorted(inscripciones_por_curso.index).
CursoIteradoPorNombre(ipc, i) ==
  SelectSeq(CursoOrden, LAMBDA c : \E k \in 1..Len(ipc) : ipc[k].curso = c)[i]

CursoIterado(ipc, i) == ipc[i].curso

\* Variant: a loop over inscripciones_por_curso.index[:-1].
FinBucleOffByOne(ipc, i) == i >= Len(ipc)

FinBucle(ipc, i) == i > Len(ipc)

\* ----------------------------------------------------------------- state
VARIABLES
  df_main,                  \* main's df: the uploaded dataset (line 191)
  pc,                       \* the next statement to run
  df,                       \* generar_reporte_inscritos' local df
  personas_unicas,          \* line 27
  fecha_minima,             \* line 28
  fecha_maxima,             \* line 29
  inscripciones_por_curso,  \* line 33: sequence of [curso, n]
  tmp_existe,               \* the file at ruta_pdf is on disk
  pdf,                      \* the pages saved to the PdfPages document
  i,                        \* the roster loop's position (line 98)
  retorno,                  \* the tuple returned at line 149, <<>> before
  metricas,                 \* what main shows at lines 233-253, <<>> before
  pdf_bytes,                \* the document handed to st.download_button
  error                     \* the exception shown by st.error, "" if none

vars ==
  <<df_main, pc, df, personas_unicas, fecha_minima, fecha_maxima,
    inscripciones_por_curso, tmp_existe, pdf, i, retorno, metricas,
    pdf_bytes, error>>

\* The state when the button of line 226 is clicked: the file is loaded,
\* nothing of the report exists.
Init ==
  /\ df_main \in Inputs
  /\ pc = "dropna"
  /\ df = df_main
  /\ personas_unicas = 0
  /\ fecha_minima = NaT
  /\ fecha_maxima = NaT
  /\ inscripciones_por_curso = <<>>
  /\ tmp_existe = FALSE
  /\ pdf = <<>>
  /\ i = 1
  /\ retorno = <<>>
  /\ metricas = <<>>
  /\ pdf_bytes = <<>>
  /\ error = ""

\* line 21
Limpiar ==
  /\ pc = "dropna"
  /\ df' = Dropna(df)
  /\ pc' = "to_datetime"
  /\ UNCHANGED <<df_main, personas_unicas, fecha_minima, fecha_maxima,
                 inscripciones_por_curso, tmp_existe, pdf, i, retorno,
                 metricas, pdf_bytes, error>>

\* line 24: the conversion raises on the first value that is no date, and
\* the exception leaves the function for main's handler (line 270).
ConvertirFecha ==
  /\ pc = "to_datetime"
  /\ IF \A k \in 1..Len(df) : Parseable(df[k].hora)
       THEN /\ df' = ToDatetime(df)
            /\ pc' = "estadisticas"
            /\ error' = error
       ELSE /\ df' = df
            /\ pc' = "except"
            /\ error' = "to_datetime"
  /\ UNCHANGED <<df_main, personas_unicas, fecha_minima, fecha_maxima,
                 inscripciones_por_curso, tmp_existe, pdf, i, retorno,
                 metricas, pdf_bytes>>

\* lines 27-33
Estadisticas ==
  /\ pc = "estadisticas"
  /\ personas_unicas' = PersonasUnicas(df)
  /\ fecha_minima' = FechaMinima(df)
  /\ fecha_maxima' = FechaMaxima(df)
  /\ inscripciones_por_curso' \in SortValues(GroupbyNunique(df))
  /\ pc' = "tmp"
  /\ UNCHANGED <<df_main, df, tmp_existe, pdf, i, retorno, metricas,
                 pdf_bytes, error>>

\* lines 36-37: NamedTemporaryFile(delete=False) leaves the file on disk.
CrearTemporal ==
  /\ pc = "tmp"
  /\ tmp_existe' = TRUE
  /\ pc' = "pagina1"
  /\ UNCHANGED <<df_main, df, personas_unicas, fecha_minima, fecha_maxima,
                 inscripciones_por_curso, pdf, i, retorno, metricas,
                 pdf_bytes, error>>

PaginaResumenHecha ==
  /\ pdf' = Append(pdf, [tipo |-> "resumen",
                         personas |-> personas_unicas,
                         inicio |-> fecha_minima,
                         fin |-> fecha_maxima,
                         periodo |-> fecha_maxima - fecha_minima,
                         barras |-> inscripciones_por_curso])
  /\ i' = 1
  /\ pc' = "tablas"
  /\ error' = error

\* Variant: a summary page that formats a missing date without raising.
PaginaResumenSinError ==
  /\ pc = "pagina1"
  /\ PaginaResumenHecha
  /\ UNCHANGED <<df_main, df, personas_unicas, fecha_minima, fecha_maxima,
                 inscripciones_por_curso, tmp_existe, retorno, metricas,
                 pdf_bytes>>

\* lines 39-95: the summary page.  NaT.strftime (lines 54-55) raises
\* ValueError, and so does max() of no values (line 91); PdfPages' exit
\* closes the document and the exception leaves for main's handler.  Nothing
\* removes the temporary file.
PaginaResumen ==
  /\ pc = "pagina1"
  /\ IF fecha_minima = NaT \/ fecha_maxima = NaT
       THEN /\ pc' = "except"
            /\ error' = "NaT.strftime"
            /\ UNCHANGED <<pdf, i>>
       ELSE IF Len(inscripciones_por_curso) = 0
         THEN /\ pc' = "except"
              /\ error' = "max"
              /\ UNCHANGED <<pdf, i>>
         ELSE PaginaResumenHecha
  /\ UNCHANGED <<df_main, df, personas_unicas, fecha_minima, fecha_maxima,
                 inscripciones_por_curso, tmp_existe, retorno, metricas,
                 pdf_bytes>>

\* lines 98-147: one pass of the roster loop
PaginaCurso ==
  /\ pc = "tablas"
  /\ ~FinBucle(inscripciones_por_curso, i)
  /\ LET curso == CursoIterado(inscripciones_por_curso, i)
         datos_curso == DatosCurso(df, curso)
     IN  pdf' = Append(pdf, [tipo |-> "tabla",
                             curso |-> curso,
                             total |-> Len(datos_curso),
                             tabla_datos |-> datos_curso])
  /\ i' = i + 1
  /\ UNCHANGED <<df_main, pc, df, personas_unicas, fecha_minima,
                 fecha_maxima, inscripciones_por_curso, tmp_existe, retorno,
                 metricas, pdf_bytes, error>>

\* line 149, and the unpacking of line 230
Retornar ==
  /\ pc = "tablas"
  /\ FinBucle(inscripciones_por_curso, i)
  /\ retorno' = <<personas_unicas, fecha_minima, fecha_maxima,
                  inscripciones_por_curso>>
  /\ pc' = "mostrar"
  /\ UNCHANGED <<df_main, df, personas_unicas, fecha_minima, fecha_maxima,
                 inscripciones_por_curso, tmp_existe, pdf, i, metricas,
                 pdf_bytes, error>>

\* lines 233-253: main shows the statistics it was returned:
\* <<personas, fecha inicio, fecha fin, periodo, inscripciones por curso>>
MostrarEstadisticas ==
  /\ pc = "mostrar"
  /\ metricas' = <<retorno[1], retorno[2], retorno[3],
                   retorno[3] - retorno[2], retorno[4]>>
  /\ pc' = "descargar"
  /\ UNCHANGED <<df_main, df, personas_unicas, fecha_minima, fecha_maxima,
                 inscripciones_por_curso, tmp_existe, pdf, i, retorno,
                 pdf_bytes, error>>

\* lines 256-265: main reads the file at ruta_pdf and offers its bytes for
\* download
Descargar ==
  /\ pc = "descargar"
  /\ tmp_existe
  /\ pdf_bytes' = pdf
  /\ pc' = "unlink"
  /\ UNCHANGED <<df_main, df, personas_unicas, fecha_minima, fecha_maxima,
                 inscripciones_por_curso, tmp_existe, pdf, i, retorno,
                 metricas, error>>

\* line 268
Unlink ==
  /\ pc = "unlink"
  /\ tmp_existe' = FALSE
  /\ pc' = "fin"
  /\ UNCHANGED <<df_main, df, personas_unicas, fecha_minima, fecha_maxima,
                 inscripciones_por_curso, pdf, i, retorno, metricas,
                 pdf_bytes, error>>

\* lines 270-271: the handler only shows the message
ManejarError ==
  /\ pc = "except"
  /\ pc' = "fin"
  /\ UNCHANGED <<df_main, df, personas_unicas, fecha_minima, fecha_maxima,
                 inscripciones_por_curso, tmp_existe, pdf, i, retorno,
                 metricas, pdf_bytes, error>>

Next ==
  \/ Limpiar
  \/ ConvertirFecha
  \/ Estadisticas
  \/ CrearTemporal
  \/ PaginaResumen
  \/ PaginaCurso
  \/ Retornar
  \/ MostrarEstadisticas
  \/ Descargar
  \/ Unlink
  \/ ManejarError

Spec == Init /\ [][Next]_vars

\* ----------------------------------------------------------------- claims
\* Positions of the run.
Completada == pc \in {"mostrar", "descargar", "unlink"} \/ (pc = "fin" /\ error = "")

Calculado ==
  /\ pc \notin {"dropna", "to_datetime", "estadisticas"}
  /\ error # "to_datetime"

\* The rows of the uploaded dataset with no missing value in the three
\* required columns, and what the clean records say of one course.
Conservadas ==
  {k \in 1..Len(df_main) :
     df_main[k].nombre # NaN /\ df_main[k].curso # NaN /\ df_main[k].hora # NaN}

FilasDe(c) == {k \in 1..Len(df) : df[k].curso = c}

CursosLimpios == {df[k].curso : k \in 1..Len(df)}

PaginasTabla == {j \in 1..Len(pdf) : pdf[j].tipo = "tabla"}

RECURSIVE SumaConteos(_)
SumaConteos(s) == IF s = <<>> THEN 0 ELSE s[1].n + SumaConteos(Tail(s))

\* C1: a completed call on a non-empty clean-record set has written exactly
\* 1 + (number of distinct courses) pages: the summary page first, then one
\* roster page for every course, none skipped, none twice.
C1_PageCount ==
  (Completada /\ Len(df) > 0) =>
    /\ Len(pdf) = 1 + Cardinality(CursosLimpios)
    /\ pdf[1].tipo = "resumen"
    /\ PaginasTabla = 2..Len(pdf)
    /\ \A c \in CursosLimpios :
         Cardinality({j \in PaginasTabla : pdf[j].curso = c}) = 1

C1_Witness == pc = "fin" /\ error = "" /\ Len(pdf) = 3 /\ Len(df) = 3

PrimeraFila(c) == CHOOSE k \in FilasDe(c) : \A j \in FilasDe(c) : k <= j

\* C2 as stated, on the claim's own example: the ranking is sorted by count
\* descending and, of two courses with equal counts, the one whose first row
\* comes earlier in the clean records is ranked earlier; rows for 'Python'
\* then 'Go', one person each, rank Python before Go.
C2_StableTies ==
  (Calculado /\ Len(df) = 2 /\ df[1].curso = "Python" /\ df[2].curso = "Go") =>
    \A a, b \in 1..Len(inscripciones_por_curso) :
      a < b =>
        LET x == inscripciones_por_curso[a]
            y == inscripciones_por_curso[b]
        IN  x.n > y.n \/ (x.n = y.n /\ PrimeraFila(x.curso) < PrimeraFila(y.curso))

\* C2 as amended: the ranking is sorted by count descending and holds every
\* course of the clean records exactly once (nothing is said of ties).
C2_Descending ==
  Calculado =>
    /\ \A a, b \in 1..Len(inscripciones_por_curso) :
         a < b => inscripciones_por_curso[a].n >= inscripciones_por_curso[b].n
    /\ {inscripciones_por_curso[k].curso :
          k \in 1..Len(inscripciones_por_curso)} = CursosLimpios
    /\ Len(inscripciones_por_curso) = Cardinality(CursosLimpios)

C2_Witness ==
  /\ Calculado
  /\ Len(inscripciones_por_curso) = 2
  /\ inscripciones_por_curso[1] = [curso |-> "Python", n |-> 2]
  /\ inscripciones_por_curso[2] = [curso |-> "Go", n |-> 1]
  /\ df[1].curso = "Go"

\* C3: whatever way the call ends, the temporary PDF file is gone.
C3_TempReleased == pc = "fin" => ~tmp_existe

\* C4: when no clean record remains, the call ends in an error that reaches
\* the caller, who shows no statistics and gets no document.
C4_EmptyDataset ==
  Conservadas = {} =>
    /\ Len(retorno) = 0
    /\ Len(metricas) = 0
    /\ Len(pdf_bytes) = 0
    /\ pc \notin {"tablas", "mostrar", "descargar", "unlink"}
    /\ pc = "fin" => error # ""

C4_Witness ==
  /\ pc = "fin"
  /\ Len(df_main) = 2
  /\ \A k \in 1..Len(df_main) : df_main[k].curso = NaN /\ df_main[k].nombre = "Ana"
  /\ error = "NaT.strftime"

\* A row with nothing missing and a timestamp that parses to a date.
FilaValida(r) ==
  r.nombre \notin {NaN, ""} /\ r.curso \notin {NaN, ""} /\ r.hora \in {"t1", "t2"}

\* A row that dropna keeps and whose timestamp is no date.
FilaIlegible(r) == r.nombre # NaN /\ r.curso # NaN /\ r.hora = "x"

\* C5 as stated: a row with an unparseable timestamp is dropped silently
\* like a row with a missing field; while another valid row exists the call
\* is not aborted and ends with the document (here for datasets whose rows
\* are valid but for their timestamps).
C5_RowDropped ==
  (/\ pc = "fin"
   /\ \E k \in 1..Len(df_main) : FilaValida(df_main[k])
   /\ \A k \in 1..Len(df_main) :
        \/ FilaValida(df_main[k])
        \/ (df_main[k].hora = "x" /\ FilaValida([df_main[k] EXCEPT !.hora = "t1"]))) =>
    (error = "" /\ Len(pdf_bytes) > 0)

\* C5 as amended: a row with an unparseable timestamp is not dropped; the
\* conversion raises and the whole call is aborted, whatever the other rows:
\* nothing is returned, shown or written, and the caller gets the error.
C5_Aborts ==
  (pc \notin {"dropna", "to_datetime"}
     /\ \E k \in 1..Len(df_main) : FilaIlegible(df_main[k])) =>
    /\ pc \in {"except", "fin"}
    /\ error = "to_datetime"
    /\ \E k \in 1..Len(df) : df[k].hora = "x"
    /\ Len(retorno) = 0 /\ Len(metricas) = 0 /\ Len(pdf_bytes) = 0
    /\ pdf = <<>> /\ ~tmp_existe

C5_Witness ==
  /\ pc = "fin"
  /\ error = "to_datetime"
  /\ Len(df_main) = 2
  /\ FilaValida(df_main[1])
  /\ FilaIlegible(df_main[2])

Presente(v) == v # NaN /\ v # ""

\* C6 as stated: the clean records are the input rows minus every row whose
\* name, course or timestamp is null or the empty string, in input order.
C6_DropsEmpty ==
  pc = "to_datetime" =>
    df = SelectSeq(df_main, LAMBDA r :
                     Presente(r.nombre) /\ Presente(r.curso) /\ Presente(r.hora))

\* C6 as amended: the clean records are the input rows minus every row whose
\* name, course or timestamp is null, in input order and unaltered; a row
\* holding an empty string there is kept.
C6_DropsNull ==
  pc = "to_datetime" =>
    /\ Len(df) = Cardinality(Conservadas)
    /\ \A k \in Conservadas :
         df[Cardinality({m \in Conservadas : m <= k})] = df_main[k]

C6_Witness ==
  /\ pc = "to_datetime"
  /\ Len(df_main) = 2
  /\ df_main[1].hora = NaN
  /\ df_main[2].curso = ""
  /\ df = <<df_main[2]>>

PrimeraFilaPar(c, p) ==
  CHOOSE k \in FilasDe(c) :
    /\ <<df[k].nombre, df[k].correo>> = p
    /\ \A j \in FilasDe(c) : <<df[j].nombre, df[j].correo>> = p => k <= j

\* C7: the roster on a course's page is the (name, email) pairs of exactly
\* the clean records of that course, without a repeated pair, in the order
\* of the pairs' first rows; its printed total is its length.
C7_Roster ==
  \A j \in PaginasTabla :
    LET c == pdf[j].curso
        t == pdf[j].tabla_datos
    IN  /\ {t[a] : a \in 1..Len(t)} =
             {<<df[k].nombre, df[k].correo>> : k \in FilasDe(c)}
        /\ \A a, b \in 1..Len(t) : a # b => t[a] # t[b]
        /\ \A a, b \in 1..Len(t) :
             a < b => PrimeraFilaPar(c, t[a]) < PrimeraFilaPar(c, t[b])
        /\ pdf[j].total = Len(t)

C7_Witness ==
  \E j \in PaginasTabla :
    /\ Cardinality(FilasDe(pdf[j].curso)) = 3
    /\ pdf[j].tabla_datos = << <<"Ana", "b@x">>, <<"Ana", "a@x">> >>

NombresDe(K) == {df_main[k].nombre : k \in K}

\* C8: unique_person_count is the number of distinct names of the clean
\* records, each course's count is the number of distinct names of its
\* rows, and the counts add up to at least unique_person_count.
C8_Counts ==
  Calculado =>
    /\ personas_unicas = Cardinality(NombresDe(Conservadas))
    /\ \A a \in 1..Len(inscripciones_por_curso) :
         inscripciones_por_curso[a].n =
           Cardinality(NombresDe({k \in Conservadas :
                          df_main[k].curso = inscripciones_por_curso[a].curso}))
    /\ SumaConteos(inscripciones_por_curso) >= personas_unicas

C8_Witness ==
  /\ Calculado
  /\ Len(df) = 3
  /\ personas_unicas = 1
  /\ SumaConteos(inscripciones_por_curso) = 2
  /\ \E a \in 1..2 : Cardinality(FilasDe(inscripciones_por_curso[a].curso)) = 2

\* C9: the summary page is the first page and carries the bars in ranking
\* order; roster page k+1 is the page of the k-th course of the ranking,
\* which is the ranking returned to and shown by the caller.
C9_PageOrder ==
  /\ Len(pdf) > 0 =>
       /\ pdf[1].tipo = "resumen"
       /\ pdf[1].barras = inscripciones_por_curso
       /\ Len(pdf) <= 1 + Len(inscripciones_por_curso)
       /\ \A j \in 2..Len(pdf) :
            /\ pdf[j].tipo = "tabla"
            /\ j - 1 <= Len(inscripciones_por_curso)
            /\ pdf[j].curso = inscripciones_por_curso[j - 1].curso
  /\ Len(retorno) > 0 =>
       /\ retorno[4] = inscripciones_por_curso
       /\ Len(pdf) = 1 + Len(retorno[4])
  /\ Len(metricas) > 0 => metricas[5] = inscripciones_por_curso
  /\ Len(pdf_bytes) > 0 => pdf_bytes = pdf

C9_Witness ==
  /\ pc = "fin"
  /\ Len(pdf_bytes) = 3
  /\ pdf_bytes[1].barras =
       << [curso |-> "Python", n |-> 2], [curso |-> "Go", n |-> 1] >>
  /\ pdf_bytes[2].curso = "Python"
  /\ pdf_bytes[3].curso = "Go"
  /\ metricas[5] = pdf_bytes[1].barras

DosCorreos(c) ==
  \E k, m \in FilasDe(c) :
    df[k].nombre = df[m].nombre /\ df[k].correo # df[m].correo

\* C10: the total printed on a course's page (distinct (name, email) pairs)
\* is at least the course's count in the ranking (distinct names), and equal
\* to it exactly when no name of the course has two different emails.
C10_TotalVsCount ==
  \A j \in PaginasTabla :
    \A a \in 1..Len(inscripciones_por_curso) :
      inscripciones_por_curso[a].curso = pdf[j].curso =>
        /\ pdf[j].total >= inscripciones_por_curso[a].n
        /\ (pdf[j].total = inscripciones_por_curso[a].n) <=> ~DosCorreos(pdf[j].curso)

C10_Witness ==
  \E j \in PaginasTabla :
    \E a \in 1..Len(inscripciones_por_curso) :
      /\ inscripciones_por_curso[a].curso = pdf[j].curso
      /\ pdf[j].total = 2
      /\ inscripciones_por_curso[a].n = 1

====
